---- MODULE Spec2Model ----
(***************************************************************************)
(* The math rendering pipeline of bokehjs' MathTextView                       *)
(* (src/bokehjs/src/lib/models/text/math_text.ts): parse_math_parts splits   *)
(* model.text into TextBox / ImageTextBox items, GraphicsContainer.paint     *)
(* paints them, ImageTextBox.paint calls back into MathTextView.load_image   *)
(* while the box has no image, and load_image converts the math source into  *)
(* an SVG image through the MathJax provider.                                *)
(*                                                                           *)
(* The layout of the boxes (the GraphicsContainer's size, visuals, position  *)
(* and painting, ImageTextBox's geometry and BaseExpo) is specified in       *)
(* LayoutSpec, PlaceSpec (longer containers) and ExpoSpec, for the boxes of *)
(* a view whose provider is ready:                                           *)
(* a paint starts the loads of its math boxes, and each load ends.           *)
(*                                                                           *)
(* JavaScript is single threaded: every action below is one synchronous run  *)
(* of a handler up to its first await (or from the settling of an await to   *)
(* the end of the continuation).                                             *)
(***************************************************************************)
EXTENDS Naturals, Integers, Sequences, FiniteSets, Bags, TLC

\* ---------------------------------------------------------------- bounds
\* number of text changes (each installs a new container)
MaxTextChanges == 1
\* number of load_image continuations that may be waiting at once: readiness
\* subscriptions plus pending decodes
MaxAttempts == 3
\* calls of notify_finished_after_paint(), of request_layout() and of
\* URL.revokeObjectURL() are each counted up to this number
MaxCalls == 2
\* images assigned to one box are numbered up to this number
MaxImage == 2
\* ParseSpec: longest text and most spans given to parse_math_parts
MaxLen == 3
MaxSpans == 2

VARIABLES
  pc,            \* the view's lifecycle: "new", "fetching" (lazy_initialize awaits provider.fetch()), "live"
  variant,       \* the concrete view class: "TeX", "MathML" or "Ascii"
  text,          \* model.text, a sequence of characters
  tex_parts,     \* what provider.MathJax.find_tex(text) returns for text
  containers,    \* every GraphicsContainer built so far, as its items; the last one is this.graphics_container
  status,        \* provider.status
  mathjax,       \* whether provider.MathJax is set
  ready_slots,   \* the connections of provider.ready: the box each () => this.load_image(image_box) closes over
  pending,       \* the load_image calls suspended at "await load_image(url)": the bag of their boxes
  blob_urls,     \* the number of object URLs created and not revoked
  revoke_count,  \* calls of URL.revokeObjectURL()
  _has_finished, \* this._has_finished
  notify_count,  \* calls of this.parent.notify_finished_after_paint()
  notify_pending,\* whether a decode of a box of the live container was pending at the latest such call
  layout_count,  \* calls of this.parent.request_layout()
  load_rejected, \* whether the load_image call whose decode settled last was rejected
  \* the layout of one GraphicsContainer and of one BaseExpo, taken on their own
  gc_items,      \* GraphicsContainer.items, each box with its layout fields
  gc_position,   \* GraphicsContainer._position
  ctx,           \* what the latest paint of the container or of the BaseExpo did on the drawing context, in order
  loader_calls,  \* the boxes it called the injected load_image with, in order
  paint_calls,   \* the boxes whose paint() it called, in order
  base_expo      \* one BaseExpo: its base, its expo and its _position

\* the variables of the loading pipeline and those of the layout
pvars == <<pc, variant, text, tex_parts, containers, status, mathjax, ready_slots,
           pending, blob_urls, revoke_count, _has_finished, notify_count, notify_pending, layout_count,
           load_rejected>>
gvars == <<gc_items, gc_position, ctx, loader_calls, paint_calls, base_expo>>
vars == <<pvars, gvars>>

\* the pipeline specifications build no layout of their own
NoLayout ==
  /\ gc_items = <<>>
  /\ gc_position = <<>>
  /\ ctx = <<>>
  /\ loader_calls = <<>>
  /\ paint_calls = <<>>
  /\ base_expo = <<>>

\* ---------------------------------------------------------------- values
\* A box is named by <<g, i>>: item i of the g-th container built. Boxes of
\* replaced containers stay (a pending load_image call or a ready connection
\* still holds them). The image of a box is 0 for null and n for the n-th
\* image object assigned to it (counted up to MaxImage).
Min(a, b) == IF a < b THEN a ELSE b

\* new TextBox({text}): a TextBox has no image field
TextBox(t) == [kind |-> "TextBox", text |-> t]
\* new ImageTextBox({text, load_image}): image = null (written 0)
ImageTextBox(t) == [kind |-> "ImageTextBox", text |-> t, image |-> 0]

is_image_box(item) == "image" \in DOMAIN item

\* String.prototype.slice(from, to) for 0 <= from, 0 <= to
slice(s, from, to) ==
  LET lo == Min(from, Len(s))
      hi == Min(to, Len(s))
  IN IF lo >= hi THEN <<>> ELSE SubSeq(s, lo + 1, hi)

\* ---------------------------------------------------------------- parse_math_parts
RECURSIVE parse_loop_keep_empty(_, _, _, _, _)
\* the loop without its "if (_text)": a TextBox is pushed for an empty gap too
parse_loop_keep_empty(t, tex, k, last_index, parts) ==
  IF k > Len(tex)
  THEN [last_index |-> last_index, parts |-> parts]
  ELSE LET part == tex[k]
           _text == slice(t, last_index, part.start)
       IN parse_loop_keep_empty(t, tex, k + 1, part.end,
                                Append(Append(parts, TextBox(_text)), ImageTextBox(part.math)))

RECURSIVE parse_loop(_, _, _, _, _)
\* the for loop of parse_math_parts: k is the next part, last_index and parts the loop's variables
parse_loop(t, tex, k, last_index, parts) ==
  IF k > Len(tex)
  THEN [last_index |-> last_index, parts |-> parts]
  ELSE LET part == tex[k]
           _text == slice(t, last_index, part.start)
           with_text == IF _text # <<>> THEN Append(parts, TextBox(_text)) ELSE parts
       IN parse_loop(t, tex, k + 1, part.end, Append(with_text, ImageTextBox(part.math)))

\* parse_math_parts with "last_index < text.length - 1": a one-character tail is dropped
parse_math_parts_short_tail(mj, t, tex) ==
  IF ~mj
  THEN <<>>
  ELSE LET r == parse_loop(t, tex, 1, 0, <<>>)
       IN IF r.last_index < Len(t) - 1
          THEN Append(r.parts, TextBox(slice(t, r.last_index, Len(t))))
          ELSE r.parts

parse_math_parts(mj, t, tex) ==
  IF ~mj
  THEN <<>>
  ELSE LET r == parse_loop(t, tex, 1, 0, <<>>)
       IN IF r.last_index < Len(t)
          THEN Append(r.parts, TextBox(slice(t, r.last_index, Len(t))))
          ELSE r.parts

\* ---------------------------------------------------------------- inputs
\* math sources; tex2svg / mathml2svg return undefined for those of Unconvertible
MathSources == {<<"m">>, <<"x">>}
Unconvertible == {<<"x">>}
Span(s, e, m) == [start |-> s, end |-> e, math |-> m]

\* texts of the view together with the spans find_tex reports for them
ViewInputs ==
  { [text |-> <<"a">>, parts |-> <<>>],
    [text |-> <<"a", "m">>, parts |-> <<Span(1, 2, <<"m">>)>>],
    [text |-> <<"m", "x">>, parts |-> <<Span(0, 1, <<"m">>), Span(1, 2, <<"x">>)>>],
    [text |-> <<"m", "a", "m">>, parts |-> <<Span(0, 1, <<"m">>), Span(2, 3, <<"m">>)>>] }

\* ---------------------------------------------------------------- the view
\* this.graphics().items
graphics(cs) == cs[Len(cs)]

has_images_loaded(items) ==
  \A i \in DOMAIN items : is_image_box(items[i]) => items[i].image # 0

BoxOf(cs, b) == cs[b[1]][b[2]]

\* the boxes of the container numbered live that have a decode pending
PendingOf(pend, live) == {b \in BagToSet(pend) : b[1] = live}

\* a call is counted, up to MaxCalls
Count(n) == Min(n + 1, MaxCalls)

\* _process_text: TRUE when the conversion yields an element
_process_text(v, mj, box) ==
  /\ v # "Ascii"
  /\ mj
  /\ box.text \notin Unconvertible

\* this._has_finished = true; return this.parent.notify_finished_after_paint()
notify_finished(s, live) ==
  [s EXCEPT !.fin = TRUE,
            !.notify = Count(@),
            !.npend = (PendingOf(s.pending, live) # {})]

\* lines 107-115: the blob URL is created and the decode awaited
start_decode(s, b) ==
  [s EXCEPT !.urls = @ + 1, !.pending = @ (+) SetToBag({b})]

\* provider.ready.connect(slot): the slot is added to the channel's connections
\* (each call passes a new closure, so none is taken for an earlier one)
ready_connect(slots, b) == Append(slots, b)

\* load_image up to its first await, called with image_box = b
load_image(s, b, cs, st, mj, v) ==
  LET loaded == has_images_loaded(graphics(cs))
  IN IF ~loaded /\ (st = "not_started" \/ st = "loading")
     THEN [s EXCEPT !.slots = ready_connect(@, b), !.fin = FALSE]
     ELSE IF ~s.fin /\ (st = "failed" \/ loaded)
     THEN notify_finished(s, Len(cs))
     ELSE IF ~_process_text(v, mj, BoxOf(cs, b))
     THEN notify_finished(s, Len(cs))
     ELSE start_decode(s, b)

\* the part of the state load_image works on
ViewState ==
  [fin |-> _has_finished, notify |-> notify_count, npend |-> notify_pending,
   slots |-> ready_slots, pending |-> pending, urls |-> blob_urls]

SetViewState(s) ==
  /\ _has_finished' = s.fin
  /\ notify_count' = s.notify
  /\ notify_pending' = s.npend
  /\ ready_slots' = s.slots
  /\ pending' = s.pending
  /\ blob_urls' = s.urls

\* ImageTextBox.paint: without an image, call the loader and draw nothing
ImageTextBox_paint(s, b, cs, st, mj, v) ==
  IF BoxOf(cs, b).image = 0 THEN load_image(s, b, cs, st, mj, v) ELSE s

RECURSIVE paint_items(_, _, _, _, _, _)
\* GraphicsContainer.paint: paint every item in order, from item i on
paint_items(s, i, cs, st, mj, v) ==
  LET items == graphics(cs)
  IN IF i > Len(items)
     THEN s
     ELSE paint_items(
            IF is_image_box(items[i]) THEN ImageTextBox_paint(s, <<Len(cs), i>>, cs, st, mj, v) ELSE s,
            i + 1, cs, st, mj, v)

\* ---------------------------------------------------------------- initial states
\* The provider is one object shared by all views: when this view is built it
\* may not have been started, be loading for another view, or have settled.
\* A ready provider has its MathJax handle; otherwise the handle may or may
\* not be set.
ProviderInit ==
  /\ status \in {"not_started", "loading", "ready", "failed"}
  /\ mathjax \in BOOLEAN
  /\ status = "ready" => mathjax
  /\ ready_slots = <<>>

Init ==
  /\ pc = "new"
  /\ variant \in {"TeX", "MathML", "Ascii"}
  /\ \E inp \in ViewInputs : text = inp.text /\ tex_parts = inp.parts
  /\ containers = <<>>
  /\ ProviderInit
  /\ pending = EmptyBag
  /\ blob_urls = 0
  /\ revoke_count = 0
  /\ _has_finished = FALSE
  /\ notify_count = 0
  /\ notify_pending = FALSE
  /\ layout_count = 0
  /\ load_rejected = FALSE
  /\ NoLayout

\* ---------------------------------------------------------------- actions
\* lazy_initialize up to "await this.provider.fetch()", or to its end when the
\* provider was already started
LazyInitialize ==
  /\ pc = "new"
  /\ IF status = "not_started"
     THEN /\ status' = "loading"
          /\ pc' = "fetching"
          /\ UNCHANGED containers
     ELSE /\ containers' = Append(containers, parse_math_parts(mathjax, text, tex_parts))
          /\ pc' = "live"
          /\ UNCHANGED status
  /\ UNCHANGED <<variant, text, tex_parts, mathjax, ready_slots, pending, blob_urls, revoke_count,
                 _has_finished, notify_count, notify_pending, layout_count>>
  /\ UNCHANGED <<load_rejected, gvars>>

\* lazy_initialize after provider.fetch() has settled
InitResume ==
  /\ pc = "fetching"
  /\ status \in {"ready", "failed"}
  /\ containers' = Append(containers, parse_math_parts(mathjax, text, tex_parts))
  /\ pc' = "live"
  /\ UNCHANGED <<variant, text, tex_parts, status, mathjax, ready_slots, pending, blob_urls, revoke_count,
                 _has_finished, notify_count, notify_pending, layout_count>>
  /\ UNCHANGED <<load_rejected, gvars>>

RECURSIVE emit_ready(_, _, _, _, _, _, _)
\* provider.ready.emit(): every connection runs () => this.load_image(image_box)
emit_ready(s, slots, k, cs, st, mj, v) ==
  IF k > Len(slots)
  THEN s
  ELSE emit_ready(load_image(s, slots[k], cs, st, mj, v), slots, k + 1, cs, st, mj, v)

\* the provider finishes loading: status becomes ready or failed and the
\* readiness notification fires once
ProviderSettle(outcome) ==
  /\ status = "loading"
  /\ status' = outcome
  /\ mathjax' = (mathjax \/ outcome = "ready")
  /\ IF ready_slots = <<>>
     THEN UNCHANGED <<ready_slots, pending, blob_urls, _has_finished, notify_count, notify_pending>>
     ELSE SetViewState(emit_ready([ViewState EXCEPT !.slots = <<>>], ready_slots, 1,
                                  containers, outcome, mathjax \/ outcome = "ready", variant))
  /\ UNCHANGED <<pc, variant, text, tex_parts, containers, revoke_count, layout_count>>
  /\ UNCHANGED <<load_rejected, gvars>>

\* the text property changes: connect_signals' handler rebuilds the container
TextChange(inp) ==
  /\ pc = "live"
  /\ Len(containers) <= MaxTextChanges
  /\ inp.text # text
  /\ text' = inp.text
  /\ tex_parts' = inp.parts
  /\ containers' = Append(containers, parse_math_parts(mathjax, inp.text, inp.parts))
  /\ UNCHANGED <<pc, variant, status, mathjax, ready_slots, pending, blob_urls, revoke_count,
                 _has_finished, notify_count, notify_pending, layout_count>>
  /\ UNCHANGED <<load_rejected, gvars>>

\* boxes of the live container that a paint would hand to load_image
Unloaded(cs) ==
  {i \in DOMAIN graphics(cs) : is_image_box(graphics(cs)[i]) /\ graphics(cs)[i].image = 0}

\* the drawing cycle paints the container
Paint ==
  /\ pc = "live"
  /\ Len(ready_slots) + BagCardinality(pending) + Cardinality(Unloaded(containers)) <= MaxAttempts
  /\ SetViewState(paint_items(ViewState, 1, containers, status, mathjax, variant))
  /\ UNCHANGED <<pc, variant, text, tex_parts, containers, status, mathjax, revoke_count, layout_count>>
  /\ UNCHANGED <<load_rejected, gvars>>

\* the rejection without the finally block: the URL is not revoked
DecodeReject_no_finally(b) ==
  /\ BagIn(b, pending)
  /\ pending' = pending (-) SetToBag({b})
  /\ UNCHANGED <<pc, variant, text, tex_parts, containers, status, mathjax, ready_slots,
                 blob_urls, revoke_count, _has_finished, notify_count, notify_pending, layout_count>>
  /\ load_rejected' = TRUE
  /\ UNCHANGED gvars

\* the finally block: URL.revokeObjectURL(url)
revokeObjectURL ==
  /\ blob_urls' = blob_urls - 1
  /\ revoke_count' = Count(revoke_count)

\* "await load_image(url)" of a call for box b resolves with an image: lines 116-128
DecodeResolve(b) ==
  /\ BagIn(b, pending)
  /\ LET cs == [containers EXCEPT ![b[1]][b[2]].image = Min(@ + 1, MaxImage)]
         pend == pending (-) SetToBag({b})
     IN /\ containers' = cs
        /\ pending' = pend
        /\ revokeObjectURL
        /\ layout_count' = Count(layout_count)
        /\ IF has_images_loaded(graphics(cs))
           THEN /\ _has_finished' = TRUE
                /\ notify_count' = Count(notify_count)
                /\ notify_pending' = (PendingOf(pend, Len(cs)) # {})
           ELSE UNCHANGED <<_has_finished, notify_count, notify_pending>>
  /\ UNCHANGED <<pc, variant, text, tex_parts, status, mathjax, ready_slots>>
  /\ load_rejected' = FALSE
  /\ UNCHANGED gvars

\* the rejection with the statements after the try block run before it is
\* passed on: request_layout() is called
DecodeReject_after_layout(b) ==
  /\ BagIn(b, pending)
  /\ pending' = pending (-) SetToBag({b})
  /\ revokeObjectURL
  /\ load_rejected' = TRUE
  /\ layout_count' = Count(layout_count)
  /\ UNCHANGED <<pc, variant, text, tex_parts, containers, status, mathjax, ready_slots,
                 _has_finished, notify_count, notify_pending>>
  /\ UNCHANGED gvars

\* "await load_image(url)" of a call for box b rejects: the finally block runs
\* and load_image throws
DecodeReject(b) ==
  /\ BagIn(b, pending)
  /\ pending' = pending (-) SetToBag({b})
  /\ revokeObjectURL
  /\ load_rejected' = TRUE
  /\ UNCHANGED <<pc, variant, text, tex_parts, containers, status, mathjax, ready_slots,
                 _has_finished, notify_count, notify_pending, layout_count>>
  /\ UNCHANGED gvars

Next ==
  \/ LazyInitialize
  \/ InitResume
  \/ \E outcome \in {"ready", "failed"} : ProviderSettle(outcome)
  \/ \E inp \in ViewInputs : TextChange(inp)
  \/ Paint
  \/ \E b \in BagToSet(pending) : DecodeResolve(b)
  \/ \E b \in BagToSet(pending) : DecodeReject(b)

Spec == Init /\ [][Next]_vars

\* ---------------------------------------------------------------- fairness
\* The drawing cycle keeps painting, the provider's load settles, every decode
\* settles (either way), and lazy_initialize runs to its end.
LiveSpec ==
  /\ Init
  /\ [][Next]_vars
  /\ WF_vars(LazyInitialize)
  /\ WF_vars(InitResume)
  /\ WF_vars(\E outcome \in {"ready", "failed"} : ProviderSettle(outcome))
  /\ WF_vars(Paint)
  /\ WF_vars(\E b \in BagToSet(pending) : DecodeResolve(b) \/ DecodeReject(b))

\* ---------------------------------------------------------------- parse_math_parts alone
Chars == {"a", "m"}
Texts == UNION {[1..n -> Chars] : n \in 0..MaxLen}
Spans(n) == {sp \in [start : 0..n, end : 0..n, math : MathSources] : sp.start < sp.end}
\* the lists find_tex may return for a text of length n: sorted, non-overlapping
SpanLists(n) ==
  {l \in UNION {[1..k -> Spans(n)] : k \in 0..MaxSpans} :
     \A i \in 1..(Len(l) - 1) : l[i].end <= l[i + 1].start}

ParseInit ==
  /\ pc = "new"
  /\ variant = "TeX"
  /\ text \in Texts
  /\ tex_parts \in SpanLists(Len(text))
  /\ containers = <<>>
  /\ ProviderInit
  /\ status \in {"ready", "failed"}
  /\ pending = EmptyBag
  /\ blob_urls = 0
  /\ revoke_count = 0
  /\ _has_finished = FALSE
  /\ notify_count = 0
  /\ notify_pending = FALSE
  /\ layout_count = 0
  /\ load_rejected = FALSE
  /\ NoLayout

\* lazy_initialize with the provider already started: the container is built
\* from parse_math_parts()
ParseSpec == ParseInit /\ [][LazyInitialize]_vars

\* ---------------------------------------------------------------- layout: values
\* most items in the container laid out, and most loads of its boxes pending
\* at once
MaxItems == 2
\* most items in a container that has at most one math box
MaxPlaced == 3

\* GraphicsBox: the fields a box is built with. Lengths are whole numbers of
\* pixels, font_size_scale is written in hundredths, and the font is the pair
\* of the face and the size scale that the font string is made of; the face
\* "none" is the font of a box whose visuals were never set. A position
\* carries its anchors by name, "absent" for an anchor it leaves out.
\* image_properties is read only of a box that has an image. No box has an
\* angle, a percent width or height, or a padding.
GraphicsBox(box) ==
  LET fields == [_position |-> [sx |-> 0, sy |-> 0, x_anchor |-> "absent", y_anchor |-> "absent"],
                 font_size_scale |-> 100,
                 text_height_metric |-> "none",
                 _x_anchor |-> "left",
                 _y_anchor |-> "center",
                 font |-> [face |-> "none", scale |-> 100],
                 line_height |-> 1]
  IN IF is_image_box(box)
     THEN box @@ fields @@ [image_properties |-> [width |-> 0, height |-> 0, v_align |-> 0]]
     ELSE box @@ fields

\* font_metrics(font): the measurements of the fonts used. Every measurement
\* given to the layout (these, text_width, the svg sizes, sx and sy) is an
\* even number of pixels, so that the halves the code takes (0.5*width,
\* 0.5*height) are whole numbers and "\div 2" below is that half exactly.
font_metrics(font) ==
  CASE font.face = "A" /\ font.scale = 100 ->
         [height |-> 20, ascent |-> 12, descent |-> 4, x_height |-> 6, cap_height |-> 10]
    [] font.face = "A" /\ font.scale = 70 ->
         [height |-> 12, ascent |-> 6, descent |-> 2, x_height |-> 4, cap_height |-> 6]
    [] font.face = "B" /\ font.scale = 100 ->
         [height |-> 44, ascent |-> 28, descent |-> 4, x_height |-> 6, cap_height |-> 12]
    [] font.face = "B" /\ font.scale = 70 ->
         [height |-> 28, ascent |-> 20, descent |-> 2, x_height |-> 4, cap_height |-> 8]

\* ctx.measureText(text).width on a canvas context whose font is font: every
\* character of a font is equally wide
measureText(line, font) ==
  Len(line) * (IF font.face = "B" /\ font.scale = 100 THEN 4 ELSE 2)

\* text_width(text, font): the measuring context is given the font when it
\* differs from the one it was given last, so the text is always measured in
\* font
text_width(line, font) == measureText(line, font)

Max(a, b) == IF a > b THEN a ELSE b

RECURSIVE split(_, _, _, _)
\* text.split("\n"): the lines of t from character i on, cur being the line
\* under way and acc the lines already ended
split(t, i, cur, acc) ==
  IF i > Len(t)
  THEN Append(acc, cur)
  ELSE IF t[i] = "\n"
       THEN split(t, i + 1, <<>>, Append(acc, cur))
       ELSE split(t, i + 1, Append(cur, t[i]), acc)

\* TextBox.nlines
nlines(box) == Len(split(box.text, 1, <<>>, <<>>))

\* the characters is_math_like accepts; "U+2212" stands for the one character
\* MINUS SIGN (\u2212 in the source)
MathLike ==
  {"0", "1", "2", "3", "4", "5", "6", "7", "8", "9", ",", ".", "+", "-", "U+2212", "e"}

\* TextBox.infer_text_height (inherited by ImageTextBox)
infer_text_height(box) ==
  IF \E i \in DOMAIN box.text : box.text[i] = "\n"
  THEN "ascent_descent"
  ELSE IF \A i \in DOMAIN box.text : box.text[i] \in MathLike
       THEN "cap"
       ELSE "ascent_descent"

\* TextBox._text_line: the height of one line under the box's height metric
_text_line(box, fmetrics) ==
  LET metric == IF box.text_height_metric # "none" THEN box.text_height_metric
                ELSE infer_text_height(box)
      ascent == CASE metric \in {"x", "x_descent"} -> fmetrics.x_height
                  [] metric \in {"cap", "cap_descent"} -> fmetrics.cap_height
                  [] metric \in {"ascent", "ascent_descent"} -> fmetrics.ascent
      descent == IF metric \in {"x", "cap", "ascent"} THEN 0 ELSE fmetrics.descent
  IN [height |-> ascent + descent, ascent |-> ascent, descent |-> descent]

RECURSIVE max_width(_, _, _, _)
\* max(widths) over the lines from k on
max_width(lines, font, k, m) ==
  IF k > Len(lines) THEN m
  ELSE max_width(lines, font, k + 1, IF k = 1 THEN text_width(lines[k], font)
                                     ELSE Max(m, text_width(lines[k], font)))

\* TextBox._size
TextBox_size(box) ==
  LET fmetrics == font_metrics(box.font)
      line_spacing == (box.line_height - 1) * fmetrics.height
      empty == box.text = <<>>
      lines == split(box.text, 1, <<>>, <<>>)
      text_height == _text_line(box, fmetrics).height * Len(lines)
  IN [width |-> max_width(lines, box.font, 1, 0),
      height |-> IF empty THEN 0 ELSE text_height + line_spacing * (Len(lines) - 1)]

\* ImageTextBox._size: nothing without an image, else the image's size with
\* the height raised to the font's line height
ImageTextBox_size(box) ==
  IF box.image = 0
  THEN [width |-> 0, height |-> 0]
  ELSE LET metrics == font_metrics(box.font)
       IN [width |-> box.image_properties.width,
           height |-> IF box.image_properties.height < metrics.height
                      THEN metrics.height ELSE box.image_properties.height]

\* item._size(), by the class of the item
_size(item) == IF is_image_box(item) THEN ImageTextBox_size(item) ELSE TextBox_size(item)

RECURSIVE GraphicsContainer_size_sums_heights(_, _, _, _)
\* GraphicsContainer._size stacking the items instead of aligning them
GraphicsContainer_size_sums_heights(its, k, width, height) ==
  IF k > Len(its)
  THEN [width |-> width, height |-> height]
  ELSE LET size == _size(its[k])
       IN GraphicsContainer_size_sums_heights(its, k + 1, width + size.width, height + size.height)

RECURSIVE GraphicsContainer_size(_, _, _, _)
\* GraphicsContainer._size: the loop over the items from item k on, with the
\* width and height accumulated so far (both start at 0)
GraphicsContainer_size(its, k, width, height) ==
  IF k > Len(its)
  THEN [width |-> width, height |-> height]
  ELSE LET size == _size(its[k])
       IN GraphicsContainer_size(its, k + 1, width + size.width, Max(height, size.height))

\* MathTextView.get_image_properties: the svg element's width and height in ex
\* and its vertical-align style (unit "none" when the style has none)
get_image_properties(svg, fmetrics) ==
  [width |-> fmetrics.x_height * svg.widthEx,
   height |-> fmetrics.x_height * svg.heightEx,
   v_align |-> fmetrics.descent +
               (CASE svg.v_unit = "ex" -> svg.v_value * fmetrics.x_height
                  [] svg.v_unit = "px" -> svg.v_value
                  [] OTHER -> 0)]

\* ---------------------------------------------------------------- layout: the container
\* TextBox's visuals setter
TextBox_visuals(box, v) ==
  [box EXCEPT !.font = [face |-> v.font, scale |-> box.font_size_scale],
              !.line_height = v.line_height,
              !._x_anchor = v.align,
              !._y_anchor = CASE v.baseline = "top" -> "top"
                              [] v.baseline = "middle" -> "center"
                              [] v.baseline = "bottom" -> "bottom"
                              [] OTHER -> "baseline"]

\* the rank of a height metric in metric_map
metric_map(metric) ==
  CASE metric = "x" -> 0
    [] metric = "cap" -> 1
    [] metric = "ascent" -> 2
    [] metric = "x_descent" -> 3
    [] metric = "cap_descent" -> 4
    [] metric = "ascent_descent" -> 5

RECURSIVE max_by(_, _, _)
\* max_by(array, key): the first element with the greatest key, from k on,
\* best being the greatest so far
max_by(arr, k, best) ==
  IF k > Len(arr) THEN best
  ELSE max_by(arr, k + 1, IF metric_map(arr[k]) > metric_map(best) THEN arr[k] ELSE best)

\* GraphicsContainer's visuals setter giving each item its own inferred metric
GraphicsContainer_visuals_own_metric(its, v) ==
  LET styled == [k \in DOMAIN its |-> TextBox_visuals(its[k], v)]
  IN [k \in DOMAIN its |-> [styled[k] EXCEPT !.text_height_metric = infer_text_height(styled[k])]]

\* GraphicsContainer's visuals setter: every item takes the visuals, then
\* every item takes the common height metric
GraphicsContainer_visuals(its, v) ==
  LET styled == [k \in DOMAIN its |-> TextBox_visuals(its[k], v)]
      inferred == [k \in DOMAIN its |-> infer_text_height(styled[k])]
      common == max_by(inferred, 2, inferred[1])
  IN [k \in DOMAIN its |-> [styled[k] EXCEPT !.text_height_metric = common]]

\* GraphicsContainer._computed_position: the anchor-resolved corner
GraphicsContainer_computed_position(its, position) ==
  LET x_anchor == IF position.x_anchor = "absent" THEN "left" ELSE position.x_anchor
      y_anchor == IF position.y_anchor = "absent" THEN "center" ELSE position.y_anchor
      size == GraphicsContainer_size(its, 1, 0, 0)
  IN [x |-> position.sx - (CASE x_anchor = "left" -> 0
                             [] x_anchor = "center" -> size.width \div 2
                             [] x_anchor = "right" -> size.width),
      y |-> position.sy - (CASE y_anchor = "top" -> 0
                             [] y_anchor = "center" -> size.height \div 2
                             [] y_anchor = "bottom" -> size.height
                             [] y_anchor = "baseline" -> size.height \div 2)]

RECURSIVE compute_items_positions_no_carry(_, _, _)
\* compute_items_positions handing on the position it was given, not the
\* advanced one: every item lies one width from the container's left edge
compute_items_positions_no_carry(its, pos, n) ==
  LET y_anchor == IF pos.y_anchor = "absent" THEN "center" ELSE pos.y_anchor
      container_height == GraphicsContainer_size(its, 1, 0, 0).height
      item_height == _size(its[n]).height
      container_space == IF y_anchor = "top" THEN item_height - container_height ELSE 0
      item_sy == pos.sy - container_space
      next == IF n = 1 THEN pos ELSE [pos EXCEPT !.sx = pos.sx + _size(its[n - 1]).width]
      placed == [its EXCEPT ![n]._position =
                   [next EXCEPT !.sy = item_sy, !.x_anchor = "left", !.y_anchor = y_anchor]]
  IN IF n + 1 > Len(its) THEN placed ELSE compute_items_positions_no_carry(placed, pos, n + 1)

RECURSIVE compute_items_positions(_, _, _)
\* GraphicsContainer.compute_items_positions(pos, n), items numbered from 1
compute_items_positions(its, pos, n) ==
  LET y_anchor == IF pos.y_anchor = "absent" THEN "center" ELSE pos.y_anchor
      container_height == GraphicsContainer_size(its, 1, 0, 0).height
      item_height == _size(its[n]).height
      container_space == IF y_anchor = "top" THEN item_height - container_height ELSE 0
      item_sy == pos.sy - container_space
      next == IF n = 1 THEN pos ELSE [pos EXCEPT !.sx = pos.sx + _size(its[n - 1]).width]
      placed == [its EXCEPT ![n]._position =
                   [next EXCEPT !.sy = item_sy, !.x_anchor = "left", !.y_anchor = y_anchor]]
  IN IF n + 1 > Len(its) THEN placed ELSE compute_items_positions(placed, next, n + 1)

\* GraphicsContainer's position setter
GraphicsContainer_position(its, pos) ==
  compute_items_positions(its, [pos EXCEPT !.sx = GraphicsContainer_computed_position(its, pos).x], 1)

\* ---------------------------------------------------------------- layout: painting
\* ImageTextBox._computed_position with the comparison of the line height
\* and the image height turned around
ImageTextBox_computed_position_taller_image(box, size, metrics) ==
  IF box.image = 0
  THEN [x |-> box._position.sx, y |-> box._position.sy]
  ELSE LET x_anchor == IF box._position.x_anchor = "absent" THEN box._x_anchor ELSE box._position.x_anchor
           y_anchor == IF box._position.y_anchor = "absent" THEN box._y_anchor ELSE box._position.y_anchor
           v_align == box.image_properties.v_align
       IN [x |-> box._position.sx - (CASE x_anchor = "left" -> 0
                                       [] x_anchor = "center" -> size.width \div 2
                                       [] x_anchor = "right" -> size.width),
           y |-> box._position.sy -
                 (CASE y_anchor = "top" ->
                         IF size.height > metrics.height
                         THEN size.height - metrics.height + v_align ELSE 0
                    [] y_anchor = "center" -> size.height \div 2
                    [] y_anchor = "bottom" ->
                         IF size.height > metrics.height THEN size.height + v_align ELSE size.height
                    [] y_anchor = "baseline" -> size.height \div 2)]

\* ImageTextBox._computed_position(size, metrics, _nlines)
ImageTextBox_computed_position(box, size, metrics) ==
  IF box.image = 0
  THEN [x |-> box._position.sx, y |-> box._position.sy]
  ELSE LET x_anchor == IF box._position.x_anchor = "absent" THEN box._x_anchor ELSE box._position.x_anchor
           y_anchor == IF box._position.y_anchor = "absent" THEN box._y_anchor ELSE box._position.y_anchor
           v_align == box.image_properties.v_align
       IN [x |-> box._position.sx - (CASE x_anchor = "left" -> 0
                                       [] x_anchor = "center" -> size.width \div 2
                                       [] x_anchor = "right" -> size.width),
           y |-> box._position.sy -
                 (CASE y_anchor = "top" ->
                         IF metrics.height > size.height
                         THEN size.height - metrics.height + v_align ELSE 0
                    [] y_anchor = "center" -> size.height \div 2
                    [] y_anchor = "bottom" ->
                         IF metrics.height > size.height THEN size.height + v_align ELSE size.height
                    [] y_anchor = "baseline" -> size.height \div 2)]

\* A paint() adds to d what it does: d.ctx the operations on the drawing
\* context, d.loads the loader calls, d.paints the paint() calls.
\* TextBox.paint: save, one fillText per line, restore (the text's
\* coordinates are not recorded)
TextBox_paint(d, k, box) ==
  [d EXCEPT !.ctx = @ \o <<[box |-> k, op |-> "save"]>>
                      \o [i \in 1..nlines(box) |-> [box |-> k, op |-> "fillText"]]
                      \o <<[box |-> k, op |-> "restore"]>>]

\* ImageTextBox.paint drawing even without an image
ImageTextBox_paint_ctx_draws_null(d, k, box) ==
  [d EXCEPT !.loads = IF box.image = 0 THEN Append(@, k) ELSE @,
            !.ctx = @ \o <<[box |-> k, op |-> "save"], [box |-> k, op |-> "drawImage"],
                           [box |-> k, op |-> "restore"]>>]

\* ImageTextBox.paint(ctx): without an image hand the box to the loader and
\* return; with one, save, drawImage and restore (the rectangle drawn, not
\* recorded, is at ImageTextBox_computed_position of the image's size)
ImageTextBox_paint_ctx(d, k, box) ==
  IF box.image = 0
  THEN [d EXCEPT !.loads = Append(@, k)]
  ELSE [d EXCEPT !.ctx = @ \o <<[box |-> k, op |-> "save"], [box |-> k, op |-> "drawImage"],
                                 [box |-> k, op |-> "restore"]>>]

\* item.paint(ctx) of item k, by the class of the item
GraphicsBox_paint(d, k, item) ==
  IF is_image_box(item)
  THEN ImageTextBox_paint_ctx([d EXCEPT !.paints = Append(@, k)], k, item)
  ELSE TextBox_paint([d EXCEPT !.paints = Append(@, k)], k, item)

RECURSIVE GraphicsContainer_paint(_, _, _)
\* GraphicsContainer.paint: item.paint(ctx) for every item, from item k on
GraphicsContainer_paint(d, k, its) ==
  IF k > Len(its)
  THEN d
  ELSE GraphicsContainer_paint(GraphicsBox_paint(d, k, its[k]), k + 1, its)

\* ---------------------------------------------------------------- layout: specification
\* the view in the layout specifications: its provider is ready, and what it
\* does is the loads that the paints of its boxes start
NoPipeline ==
  /\ pc = "layout"
  /\ variant = "TeX"
  /\ text = <<>>
  /\ tex_parts = <<>>
  /\ containers = <<>>
  /\ status = "ready"
  /\ mathjax = TRUE
  /\ ready_slots = <<>>
  /\ pending = EmptyBag
  /\ blob_urls = 0
  /\ revoke_count = 0
  /\ _has_finished = FALSE
  /\ notify_count = 0
  /\ notify_pending = FALSE
  /\ layout_count = 0
  /\ load_rejected = FALSE

\* the boxes parse_math_parts may put into a container: text that is
\* math-like (a minus sign and a digit), and a math box
LayoutBoxes ==
  {GraphicsBox(TextBox(<<"U+2212", "1">>)), GraphicsBox(ImageTextBox(<<"m">>))}

\* the text visuals given to the container
Visuals ==
  {[font |-> "A", align |-> "left", baseline |-> "top", line_height |-> 1],
   [font |-> "B", align |-> "center", baseline |-> "bottom", line_height |-> 2]}

\* the positions given to the container
Positions ==
  {[sx |-> 0, sy |-> 0, x_anchor |-> "absent", y_anchor |-> "absent"],
   [sx |-> 10, sy |-> 20, x_anchor |-> "center", y_anchor |-> "top"],
   [sx |-> 30, sy |-> 20, x_anchor |-> "right", y_anchor |-> "bottom"]}

\* the svg elements a conversion yields: lower than a line of either font, and
\* taller than a line of font A
Svgs ==
  {[widthEx |-> 2, heightEx |-> 2, v_unit |-> "ex", v_value |-> -1],
   [widthEx |-> 4, heightEx |-> 5, v_unit |-> "px", v_value |-> -2]}

LayoutInit ==
  /\ NoPipeline
  /\ gc_items \in UNION {[1..n -> LayoutBoxes] : n \in 1..MaxItems}
  /\ gc_position = [sx |-> 0, sy |-> 0, x_anchor |-> "absent", y_anchor |-> "absent"]
  /\ ctx = <<>>
  /\ loader_calls = <<>>
  /\ paint_calls = <<>>
  /\ base_expo = <<>>

\* the owner assigns the container's visuals
SetVisuals(v) ==
  /\ gc_items' = GraphicsContainer_visuals(gc_items, v)
  /\ UNCHANGED <<pvars, gc_position, ctx, loader_calls, paint_calls, base_expo>>

\* the owner assigns the container's position
SetPosition(pos) ==
  /\ \A k \in DOMAIN gc_items : gc_items[k].font.face # "none"
  /\ gc_position' = pos
  /\ gc_items' = GraphicsContainer_position(gc_items, pos)
  /\ UNCHANGED <<pvars, ctx, loader_calls, paint_calls, base_expo>>

\* the items a paint hands to the loader
unloaded_items(its) == {k \in DOMAIN its : is_image_box(its[k]) /\ its[k].image = 0}

\* The boxes laid out are those of a view: the injected loader of a math box
\* is the view's load_image (line 147), the provider is ready and the view's
\* container is the one laid out. Box k of it is named <<1, k>>.
\* The owner paints the container: what the paint does on the drawing
\* context, and what the loader calls it makes do in the view (each one
\* creates its URL and waits for the decode).
PaintContainer ==
  /\ \A k \in DOMAIN gc_items : gc_items[k].font.face # "none"
  /\ BagCardinality(pending) + Cardinality(unloaded_items(gc_items)) <= MaxItems
  /\ LET d == GraphicsContainer_paint([ctx |-> <<>>, loads |-> <<>>, paints |-> <<>>], 1, gc_items)
     IN /\ ctx' = d.ctx
        /\ loader_calls' = d.loads
        /\ paint_calls' = d.paints
  /\ SetViewState(paint_items(ViewState, 1, <<gc_items>>, status, mathjax, variant))
  /\ UNCHANGED <<pc, variant, text, tex_parts, containers, status, mathjax,
                 revoke_count, layout_count, load_rejected>>
  /\ UNCHANGED <<gc_items, gc_position, base_expo>>

\* load_image from the settling of "await load_image(url)" with an image to
\* its end, but for the assignment to the box (lines 120-121): the URL is
\* revoked, a layout is requested, and the view finishes when every math box
\* of items, the view's container after the assignment, has an image
load_image_resolved(b, items) ==
  LET pend == pending (-) SetToBag({b})
  IN /\ pending' = pend
     /\ revokeObjectURL
     /\ layout_count' = Count(layout_count)
     /\ IF has_images_loaded(items)
        THEN /\ _has_finished' = TRUE
             /\ notify_count' = Count(notify_count)
             /\ notify_pending' = (PendingOf(pend, 1) # {})
        ELSE UNCHANGED <<_has_finished, notify_count, notify_pending>>
     /\ load_rejected' = FALSE
     /\ UNCHANGED <<pc, variant, text, tex_parts, containers, status, mathjax, ready_slots>>

\* "await load_image(url)" of a load of box k resolves with an image (lines
\* 116-128): the image and its properties are assigned to the box, whether or
\* not it has an image already, and the view goes on as above
AssignImage(k, svg) ==
  /\ BagIn(<<1, k>>, pending)
  /\ LET its == [gc_items EXCEPT ![k].image = 1,
                                 ![k].image_properties =
                                    get_image_properties(svg, font_metrics(gc_items[k].font))]
     IN /\ gc_items' = its
        /\ load_image_resolved(<<1, k>>, its)
  /\ UNCHANGED <<gc_position, ctx, loader_calls, paint_calls, base_expo>>

LayoutNext ==
  \/ \E v \in Visuals : SetVisuals(v)
  \/ \E pos \in Positions : SetPosition(pos)
  \/ PaintContainer
  \/ \E k \in DOMAIN gc_items, svg \in Svgs : AssignImage(k, svg)
  \/ \E b \in BagToSet(pending) : DecodeReject(b)

LayoutSpec == LayoutInit /\ [][LayoutNext]_vars

\* longer containers, of text with at most one formula in it
PlaceInit ==
  /\ NoPipeline
  /\ gc_items \in {its \in UNION {[1..n -> LayoutBoxes] : n \in 1..MaxPlaced} :
                      Cardinality({k \in DOMAIN its : is_image_box(its[k])}) <= 1}
  /\ gc_position = [sx |-> 0, sy |-> 0, x_anchor |-> "absent", y_anchor |-> "absent"]
  /\ ctx = <<>>
  /\ loader_calls = <<>>
  /\ paint_calls = <<>>
  /\ base_expo = <<>>

PlaceSpec == PlaceInit /\ [][LayoutNext]_vars

\* ---------------------------------------------------------------- layout: BaseExpo
\* GraphicsBox.size: _size() itself for a box without an angle
GraphicsBox_size(box) == _size(box)

\* BaseExpo._shift_scale, as the fraction num / den
_shift_scale(be) ==
  IF be.base.kind \in {"TextBox", "ImageTextBox"} /\ nlines(be.base) = 1
  THEN LET fmetrics == font_metrics(be.base.font)
       IN [num |-> fmetrics.x_height, den |-> fmetrics.cap_height]
  ELSE [num |-> 2, den |-> 3]

\* this._shift_scale()*bs.height
shift_of(be) ==
  LET scale == _shift_scale(be)
  IN (scale.num * GraphicsBox_size(be.base).height) \div scale.den

\* the shift is a whole number of pixels
ShiftExact(be) ==
  LET scale == _shift_scale(be)
  IN (scale.num * GraphicsBox_size(be.base).height) % scale.den = 0

\* BaseExpo._size with the exponent set beside the base, not raised
BaseExpo_size_no_shift(be) ==
  LET bs == GraphicsBox_size(be.base)
      es == GraphicsBox_size(be.expo)
  IN [width |-> bs.width + es.width,
      height |-> Max(bs.height, es.height)]

\* BaseExpo._size
BaseExpo_size(be) ==
  LET bs == GraphicsBox_size(be.base)
      es == GraphicsBox_size(be.expo)
  IN [width |-> bs.width + es.width,
      height |-> Max(bs.height, shift_of(be) + es.height)]

\* BaseExpo's position setter
BaseExpo_position(be, p) ==
  LET bs == GraphicsBox_size(be.base)
      es == GraphicsBox_size(be.expo)
      shift == shift_of(be)
      height == Max(bs.height, shift + es.height)
  IN [be EXCEPT !._position = p,
                !.base._position = [sx |-> 0, x_anchor |-> "left", sy |-> height, y_anchor |-> "bottom"],
                !.expo._position = [sx |-> bs.width, x_anchor |-> "left", sy |-> shift, y_anchor |-> "bottom"]]

\* BaseExpo's visuals setter: the exponent is set in a smaller size
BaseExpo_visuals(be, v) ==
  [be EXCEPT !.base = TextBox_visuals(be.base, v),
             !.expo = TextBox_visuals([be.expo EXCEPT !.font_size_scale = 70], v)]

\* new BaseExpo(base, expo)
BaseExpo(base, expo) ==
  [base |-> base, expo |-> expo,
   _position |-> [sx |-> 0, sy |-> 0, x_anchor |-> "absent", y_anchor |-> "absent"]]

\* the boxes a BaseExpo is built of: those above, a text of two lines and a
\* text of one line that is not math-like
ExpoBoxes ==
  LayoutBoxes \cup {GraphicsBox(TextBox(<<"a", "\n", "b">>)), GraphicsBox(TextBox(<<"a">>))}

ExpoInit ==
  /\ NoPipeline
  /\ gc_items = <<>>
  /\ gc_position = <<>>
  /\ ctx = <<>>
  /\ loader_calls = <<>>
  /\ paint_calls = <<>>
  /\ base_expo \in {BaseExpo(base, expo) : base \in ExpoBoxes, expo \in ExpoBoxes}

\* the owner assigns the BaseExpo's visuals (those for which the shift is a
\* whole number of pixels)
ExpoSetVisuals(v) ==
  /\ ShiftExact(BaseExpo_visuals(base_expo, v))
  /\ base_expo' = BaseExpo_visuals(base_expo, v)
  /\ UNCHANGED <<pvars, gc_items, gc_position, ctx, loader_calls, paint_calls>>

\* the owner assigns the BaseExpo's position
ExpoSetPosition(p) ==
  /\ base_expo.base.font.face # "none"
  /\ base_expo' = BaseExpo_position(base_expo, p)
  /\ UNCHANGED <<pvars, gc_items, gc_position, ctx, loader_calls, paint_calls>>

\* BaseExpo.children: the base is child 1, the exponent child 2
children(be) == <<be.base, be.expo>>

\* BaseExpo.paint(ctx): save, translate to the computed position (not
\* recorded), paint the base, paint the exponent, restore; the BaseExpo's own
\* operations are recorded under box 0
BaseExpo_paint(d, be) ==
  LET opened == [d EXCEPT !.ctx = @ \o <<[box |-> 0, op |-> "save"], [box |-> 0, op |-> "translate"]>>]
      base == GraphicsBox_paint(opened, 1, be.base)
      expo == GraphicsBox_paint(base, 2, be.expo)
  IN [expo EXCEPT !.ctx = @ \o <<[box |-> 0, op |-> "restore"]>>]

\* The children are boxes of a view, as the container's are: the view's
\* container holds the base and the exponent, named <<1, 1>> and <<1, 2>>.
\* The owner paints the BaseExpo
PaintExpo ==
  /\ base_expo.base.font.face # "none"
  /\ BagCardinality(pending) + Cardinality(unloaded_items(children(base_expo))) <= MaxItems
  /\ LET d == BaseExpo_paint([ctx |-> <<>>, loads |-> <<>>, paints |-> <<>>], base_expo)
     IN /\ ctx' = d.ctx
        /\ loader_calls' = d.loads
        /\ paint_calls' = d.paints
  /\ SetViewState(paint_items(ViewState, 1, <<children(base_expo)>>, status, mathjax, variant))
  /\ UNCHANGED <<pc, variant, text, tex_parts, containers, status, mathjax,
                 revoke_count, layout_count, load_rejected>>
  /\ UNCHANGED <<gc_items, gc_position, base_expo>>

\* "await load_image(url)" of a load of child k resolves with an image (lines
\* 116-128): the child takes the image and its properties, and with them
\* another size
ExpoAssignImage(k, svg) ==
  /\ BagIn(<<1, k>>, pending)
  /\ LET props == get_image_properties(svg, font_metrics(children(base_expo)[k].font))
         be == IF k = 1
               THEN [base_expo EXCEPT !.base.image = 1, !.base.image_properties = props]
               ELSE [base_expo EXCEPT !.expo.image = 1, !.expo.image_properties = props]
     IN /\ base_expo' = be
        /\ load_image_resolved(<<1, k>>, children(be))
  /\ UNCHANGED <<gc_items, gc_position, ctx, loader_calls, paint_calls>>

ExpoNext ==
  \/ \E v \in Visuals : ExpoSetVisuals(v)
  \/ \E p \in Positions : ExpoSetPosition(p)
  \/ PaintExpo
  \/ \E k \in 1..2, svg \in Svgs : ExpoAssignImage(k, svg)
  \/ \E b \in BagToSet(pending) : DecodeReject(b)

ExpoSpec == ExpoInit /\ [][ExpoNext]_vars


\* ---------------------------------------------------------------- claims
\* the ImageTextBox items there are, by name
ImageBoxes ==
  {b \in UNION {{<<g, i>> : i \in DOMAIN containers[g]} : g \in DOMAIN containers} :
     is_image_box(BoxOf(containers, b))}
Live == Len(containers)

\* C1: at no time are two conversions of the same ImageTextBox pending at once.
C1_OneConversionPerBox ==
  \A b \in ImageBoxes : CopiesIn(b, pending) <= 1

\* C2: when a load of a box of a replaced container resolves, it calls no
\* request_layout, does not set _has_finished and emits no completion signal.
C2_StaleLoadLeavesLayoutState ==
  [][\A b \in BagToSet(pending) :
       (/\ b[1] < Live
        /\ CopiesIn(b, pending') < CopiesIn(b, pending)
        /\ BoxOf(containers', b).image # BoxOf(containers, b).image)
       => /\ layout_count' = layout_count
          /\ _has_finished' = _has_finished
          /\ notify_count' = notify_count]_vars

\* C3: the image of a box starts null and, once non-null, is never assigned again.
C3_ImageAssignedOnce ==
  [][\A b \in ImageBoxes :
       BoxOf(containers, b).image # 0
       => BoxOf(containers', b).image = BoxOf(containers, b).image]_vars

\* C4: with the provider failed before any conversion attempt (no conversion
\* starts while the provider is not_started or loading, so status = "failed"
\* says so), painting the container's math boxes produces no image and calls
\* notify_finished_after_paint at most once (and, once finished, exactly once).
C4_FailedProviderFinishesOnce ==
  (status = "failed" /\ Live = 1)
  => /\ \A b \in ImageBoxes : BoxOf(containers, b).image = 0
     /\ notify_count <= 1
     /\ _has_finished => notify_count = 1

\* C5: a view whose text keeps a math span, painted repeatedly, eventually has
\* _has_finished = true with the completion signal emitted.
C5_EventuallyFinished ==
  <>(tex_parts = <<>> \/ (_has_finished /\ notify_count > 0))

\* C6: every blob URL load_image created is revoked exactly once, in the step
\* in which its decode settles, on the success path and on the rejection
\* path: the URLs created and not revoked are those of the pending decodes.
C6_UrlRevokedOnce ==
  blob_urls = BagCardinality(pending)

\* a decode was rejected (its URL was revoked, and no image was ever stored
\* and no layout requested) while another decode is still pending
C6_Witness ==
  /\ revoke_count > 0
  /\ layout_count = 0
  /\ \A b \in ImageBoxes : BoxOf(containers, b).image = 0
  /\ BagCardinality(pending) > 0

\* C7: whenever the completion signal is emitted, no decode for a box of the
\* container is pending at that moment.
C7_SettledAtNotify ==
  ~notify_pending

\* C10: the provider's ready channel holds at most one continuation per box.
C10_OneSubscriptionPerBox ==
  \A i, j \in DOMAIN ready_slots : ready_slots[i] = ready_slots[j] => i = j

\* ---- parse_math_parts (ParseSpec)
Parsed == pc = "live" /\ mathjax
Items == containers[1]

\* C8 as stated: a text without math spans parses to exactly one TextBox
\* holding the whole text.
C8_NoSpansOneTextBox ==
  (Parsed /\ tex_parts = <<>>) => Items = <<TextBox(text)>>

\* C8 amended: a non-empty text without math spans parses to exactly one
\* TextBox holding the whole text.
C8_NonEmptyNoSpansOneTextBox ==
  (Parsed /\ tex_parts = <<>> /\ text # <<>>) => Items = <<TextBox(text)>>

\* a two-character text without spans has been parsed into one item
C8_Witness ==
  Parsed /\ tex_parts = <<>> /\ Len(text) = 2 /\ Len(Items) = 1

\* the characters of text from offset from (0-based) up to, not including, offset to
Gap(from, to) == [i \in 1..(IF to > from THEN to - from ELSE 0) |-> text[from + i]]
ImageIdx == {i \in DOMAIN Items : is_image_box(Items[i])}
\* the index in Items of the k-th ImageTextBox; 0 before the first, Len + 1 after the last
ImagePos(k) ==
  IF k = 0 THEN 0
  ELSE IF k > Cardinality(ImageIdx) THEN Len(Items) + 1
  ELSE CHOOSE i \in ImageIdx : Cardinality({j \in ImageIdx : j < i}) = k - 1
GapStart(k) == IF k = 0 THEN 0 ELSE tex_parts[k].end
GapEnd(k) == IF k = Len(tex_parts) THEN Len(text) ELSE tex_parts[k + 1].start

\* C9: the items are, in text order, one ImageTextBox (without image) per span
\* with the span's math source, and between them (before the first, after the
\* last) exactly the TextBox of the gap's characters when the gap is not empty,
\* and nothing when it is.
C9_ItemsFollowSpans ==
  Parsed =>
    /\ Cardinality(ImageIdx) = Len(tex_parts)
    /\ \A k \in 1..Len(tex_parts) : Items[ImagePos(k)] = ImageTextBox(tex_parts[k].math)
    /\ \A k \in 0..Len(tex_parts) :
         LET between == [i \in 1..(ImagePos(k + 1) - ImagePos(k) - 1) |-> Items[ImagePos(k) + i]]
             gap == Gap(GapStart(k), GapEnd(k))
         IN between = IF gap = <<>> THEN <<>> ELSE <<TextBox(gap)>>

\* two adjacent spans with text before the first and none after the last
C9_Witness ==
  /\ Parsed
  /\ Len(tex_parts) = 2
  /\ tex_parts[1].start = 1
  /\ tex_parts[2].start = 2
  /\ tex_parts[2].end = Len(text)
  /\ Len(Items) = 3

\* ---------------------------------------------------------------- claims: layout
\* every item of the container has had its visuals set
Styled == \A k \in DOMAIN gc_items : gc_items[k].font.face # "none"

RECURSIVE SumWidths(_)
\* the widths of the items of its, added up
SumWidths(its) == IF its = <<>> THEN 0 ELSE _size(Head(its)).width + SumWidths(Tail(its))

\* C11: the size of a container with items is the sum of its items' widths and
\* the greatest of its items' heights, an ImageTextBox without an image
\* counting for nothing.
C11_ContainerSize ==
  (gc_items # <<>> /\ Styled) =>
    LET size == GraphicsContainer_size(gc_items, 1, 0, 0)
    IN /\ size.width = SumWidths(gc_items)
       /\ \E k \in DOMAIN gc_items : size.height = _size(gc_items[k]).height
       /\ \A k \in DOMAIN gc_items : size.height >= _size(gc_items[k]).height
       /\ \A k \in DOMAIN gc_items :
            (is_image_box(gc_items[k]) /\ gc_items[k].image = 0) =>
              _size(gc_items[k]) = [width |-> 0, height |-> 0]

\* a text box that has a size beside a math box without an image
C11_Witness ==
  /\ Len(gc_items) = 2
  /\ Styled
  /\ is_image_box(gc_items[2]) /\ gc_items[2].image = 0
  /\ _size(gc_items[1]).width > 0
  /\ _size(gc_items[1]).height > 0

\* the x the container's position resolves to, by its horizontal anchor
LeftX ==
  gc_position.sx -
    (CASE gc_position.x_anchor \in {"absent", "left"} -> 0
       [] gc_position.x_anchor = "center" -> SumWidths(gc_items) \div 2
       [] gc_position.x_anchor = "right" -> SumWidths(gc_items))

\* the items lie side by side from the container's left edge
Placed ==
  \A k \in DOMAIN gc_items :
    /\ gc_items[k]._position.x_anchor = "left"
    /\ gc_items[k]._position.sx =
         IF k = 1 THEN LeftX
         ELSE gc_items[k - 1]._position.sx + _size(gc_items[k - 1]).width

\* C12: when the container's position has been set, its first item is anchored
\* "left" at the container's anchor-resolved left x and every later item is
\* anchored "left" at the previous item's sx plus the previous item's width.
C12_ItemsSideBySide ==
  [][(gc_position' # gc_position
      \/ \E k \in DOMAIN gc_items : gc_items'[k]._position # gc_items[k]._position) => Placed']_vars

\* a centred container of three items, text before and after a formula that
\* has its image: each item lies further right than the one before it, the
\* third at the second's sx plus the second's width
C12_Witness ==
  /\ Len(gc_items) = 3
  /\ gc_position.x_anchor = "center"
  /\ is_image_box(gc_items[2]) /\ gc_items[2].image # 0
  /\ gc_items[1]._position.sx = LeftX
  /\ LeftX < gc_position.sx
  /\ gc_items[2]._position.sx > gc_items[1]._position.sx
  /\ gc_items[3]._position.sx > gc_items[2]._position.sx
  /\ gc_items[3]._position.sx = gc_items[2]._position.sx + _size(gc_items[2]).width
  /\ gc_items[3]._position.x_anchor = "left"

\* C13: once the container's visuals are set, every item has the same
\* text_height_metric, the one of greatest rank among the items' inferred
\* metrics.
C13_CommonHeightMetric ==
  (gc_items # <<>> /\ Styled) =>
    \E j \in DOMAIN gc_items :
      /\ \A k \in DOMAIN gc_items : gc_items[k].text_height_metric = infer_text_height(gc_items[j])
      /\ \A k \in DOMAIN gc_items :
           metric_map(infer_text_height(gc_items[k])) <= metric_map(infer_text_height(gc_items[j]))

\* a math-like text box raised to the metric of the other item
C13_Witness ==
  /\ Len(gc_items) = 2
  /\ Styled
  /\ infer_text_height(gc_items[1]) = "cap"
  /\ infer_text_height(gc_items[2]) = "ascent_descent"
  /\ gc_items[1].text_height_metric = "ascent_descent"

\* the anchors a position may name
XAnchors == {"absent", "left", "center", "right"}
YAnchors == {"absent", "top", "center", "baseline", "bottom"}

\* the math boxes of the container that have no image
Imageless == {k \in DOMAIN gc_items : is_image_box(gc_items[k]) /\ gc_items[k].image = 0}

\* an imageless box measures nothing and stays at its raw anchor point
ImagelessGeometry ==
  Styled =>
    \A k \in Imageless :
      /\ _size(gc_items[k]) = [width |-> 0, height |-> 0]
      /\ \A xa \in XAnchors, ya \in YAnchors, svg \in Svgs :
           LET box == [gc_items[k] EXCEPT !._position.x_anchor = xa, !._position.y_anchor = ya]
               metrics == font_metrics(box.font)
               size == get_image_properties(svg, metrics)
           IN ImageTextBox_computed_position(box, [width |-> size.width, height |-> size.height], metrics)
                = [x |-> box._position.sx, y |-> box._position.sy]

\* a paint of the container touches the context for no imageless box and
\* hands each of them to the loader once
ImagelessPaint ==
  (paint_calls' # paint_calls \/ ctx' # ctx \/ loader_calls' # loader_calls) =>
    \A k \in Imageless :
      /\ Cardinality({j \in DOMAIN paint_calls' : paint_calls'[j] = k}) = 1
      /\ \A j \in DOMAIN ctx' : ctx'[j].box # k
      /\ Cardinality({j \in DOMAIN loader_calls' : loader_calls'[j] = k}) = 1

\* C14: an ImageTextBox without an image has size 0 by 0, its computed
\* position is its raw point (sx, sy) whatever the anchors, and each paint()
\* of it does nothing on the drawing context and calls the loader exactly
\* once, with the box itself.
C14_ImagelessBox == []ImagelessGeometry /\ [][ImagelessPaint]_vars

\* a painted container: the text box was drawn, the imageless math box,
\* placed by its top, went to the loader
C14_Witness ==
  /\ Len(gc_items) = 2
  /\ ~is_image_box(gc_items[1])
  /\ Imageless = {2}
  /\ gc_items[2]._position.y_anchor = "top"
  /\ gc_items[2]._position.sx > 0
  /\ paint_calls = <<1, 2>>
  /\ loader_calls = <<2>>
  /\ ctx # <<>>

\* the math boxes of the container that have an image
WithImage == {k \in DOMAIN gc_items : is_image_box(gc_items[k]) /\ gc_items[k].image # 0}

\* what paint() subtracts from sy for box k: sy minus the y of its computed
\* position for the image's size
OffsetY(k) ==
  LET box == gc_items[k]
      size == [width |-> box.image_properties.width, height |-> box.image_properties.height]
  IN box._position.sy - ImageTextBox_computed_position(box, size, font_metrics(box.font)).y

\* the vertical anchor in force for box k
YAnchor(k) ==
  IF gc_items[k]._position.y_anchor = "absent" THEN gc_items[k]._y_anchor
  ELSE gc_items[k]._position.y_anchor

\* C15 as stated: for an ImageTextBox with an image the offset subtracted from
\* sy is, anchored "top", (height - metrics.height) + v_align when the image
\* is higher than the font's line and 0 otherwise, and, anchored "bottom",
\* height + v_align when the image is higher than the font's line and height
\* otherwise.
C15_OffsetWhenImageTaller ==
  \A k \in WithImage :
    LET height == gc_items[k].image_properties.height
        v_align == gc_items[k].image_properties.v_align
        metrics == font_metrics(gc_items[k].font)
    IN /\ YAnchor(k) = "top" =>
            OffsetY(k) = IF height > metrics.height THEN (height - metrics.height) + v_align ELSE 0
       /\ YAnchor(k) = "bottom" =>
            OffsetY(k) = IF height > metrics.height THEN height + v_align ELSE height

\* C15, amended: for an ImageTextBox with an image the offset subtracted from
\* sy is, anchored "top", (height - metrics.height) + v_align when the font's
\* line is higher than the image and 0 otherwise, and, anchored "bottom",
\* height + v_align when the font's line is higher than the image and height
\* otherwise.
C15_OffsetWhenLineTaller ==
  \A k \in WithImage :
    LET height == gc_items[k].image_properties.height
        v_align == gc_items[k].image_properties.v_align
        metrics == font_metrics(gc_items[k].font)
    IN /\ YAnchor(k) = "top" =>
            OffsetY(k) = IF metrics.height > height THEN (height - metrics.height) + v_align ELSE 0
       /\ YAnchor(k) = "bottom" =>
            OffsetY(k) = IF metrics.height > height THEN height + v_align ELSE height

\* two math boxes with images anchored by their top, one lower and one higher
\* than the font's line
C15_Witness ==
  /\ WithImage = {1, 2}
  /\ YAnchor(1) = "top" /\ YAnchor(2) = "top"
  /\ gc_items[1].image_properties.height < font_metrics(gc_items[1].font).height
  /\ gc_items[2].image_properties.height > font_metrics(gc_items[2].font).height
  /\ OffsetY(1) # 0
  /\ OffsetY(2) = 0

\* ---------------------------------------------------------------- claims: BaseExpo
\* the sizes of the base and of the exponent, and the shift of the exponent
BaseSize == _size(base_expo.base)
ExpoSize == _size(base_expo.expo)
Shift == (_shift_scale(base_expo).num * BaseSize.height) \div _shift_scale(base_expo).den

\* the height H of the claim is h: the greater of the base's height and of the
\* shift plus the exponent's height
IsH(h) ==
  /\ h \in {BaseSize.height, Shift + ExpoSize.height}
  /\ h >= BaseSize.height
  /\ h >= Shift + ExpoSize.height

\* _size() is the widths added up by H
ExpoSizeIsH ==
  base_expo.base.font.face # "none" =>
    /\ BaseExpo_size(base_expo).width = BaseSize.width + ExpoSize.width
    /\ IsH(BaseExpo_size(base_expo).height)

\* the base lies bottom-left at (0, H), the exponent bottom-left at
\* (base width, shift)
ExpoPlaced ==
  /\ base_expo.base._position.sx = 0
  /\ IsH(base_expo.base._position.sy)
  /\ base_expo.base._position.x_anchor = "left"
  /\ base_expo.base._position.y_anchor = "bottom"
  /\ base_expo.expo._position.sx = BaseSize.width
  /\ base_expo.expo._position.sy = Shift
  /\ base_expo.expo._position.x_anchor = "left"
  /\ base_expo.expo._position.y_anchor = "bottom"

\* C16: for every BaseExpo, with shift = shift_scale * base height and
\* H = max(base height, shift + exponent height), _size() is base width +
\* exponent width by H, and setting the position anchors the base bottom-left
\* at (0, H) and the exponent bottom-left at (base width, shift).
C16_BaseExpoLayout ==
  /\ []ExpoSizeIsH
  /\ [][(base_expo # <<>> /\ base_expo'._position # base_expo._position) => ExpoPlaced']_vars

\* the example of the claim, laid out: base height 10, shift scale 3/5,
\* exponent height 8, H = 14
C16_Witness ==
  /\ base_expo # <<>>
  /\ base_expo.base.font.face # "none"
  /\ BaseSize.height = 10
  /\ _shift_scale(base_expo).num * 5 = _shift_scale(base_expo).den * 3
  /\ ExpoSize.height = 8
  /\ BaseExpo_size(base_expo).height = 14
  /\ base_expo._position.sx = 10
  /\ base_expo.base._position.sy = 14
  /\ base_expo.expo._position.sy = 6

\* ---------------------------------------------------------------- claims: the pipeline, continued
\* C17: when the decoding of a box's image is rejected, load_image is rejected
\* too and, apart from the URL it releases, leaves the state as it was: the
\* box's image (null stays null) and image_properties, the count of
\* request_layout() calls, _has_finished and the count of completion signals.
\* (A box's image_properties are assigned together with its image.)
C17_RejectionLeavesState ==
  [][(blob_urls' < blob_urls /\ load_rejected') =>
       /\ blob_urls' = blob_urls - 1
       /\ containers' = containers
       /\ layout_count' = layout_count
       /\ _has_finished' = _has_finished
       /\ notify_count' = notify_count]_vars

\* a rejected load and none pending: the URL is released, the box has no
\* image, nothing was laid out, finished or signalled
C17_Witness ==
  /\ load_rejected
  /\ pending = EmptyBag
  /\ blob_urls = 0
  /\ revoke_count = 1
  /\ \E b \in ImageBoxes : b[1] = Live /\ BoxOf(containers, b).image = 0
  /\ layout_count = 0
  /\ ~_has_finished
  /\ notify_count = 0

\* C18: _has_finished is true only if, in the live container, every math box
\* has an image, or the provider failed, or the conversion of one of its
\* boxes yields no element; so after a text change that installs a container
\* with unloaded math boxes the view is not finished until their loads settle.
C18_FinishedMeansLiveLoaded ==
  (_has_finished /\ containers # <<>>) =>
    \/ has_images_loaded(graphics(containers))
    \/ status = "failed"
    \/ \E i \in DOMAIN graphics(containers) :
         /\ is_image_box(graphics(containers)[i])
         /\ ~_process_text(variant, mathjax, graphics(containers)[i])
====
